---- MODULE Spec2Model ----
(***************************************************************************)
(* Device-secret provisioning flow of                                      *)
(* sw/device/silicon_creator/manuf/lib/provisioning.c.                     *)
(*                                                                         *)
(* The two entry points provisioning_device_secrets_start() and            *)
(* provisioning_device_secrets_end() are modelled statement by statement:  *)
(* every peripheral call and every check of the source is one action, and  *)
(* `pc` is the position in the source.  The peripherals (lifecycle         *)
(* controller, OTP controller, flash controller, CSRNG) are not part of    *)
(* the file; they are modelled at their interface: every call returns a    *)
(* status chosen nondeterministically, and a successful call has the       *)
(* effect its interface documents.                                         *)
(*                                                                         *)
(* Machine words.  TLC integers are narrower than uint32_t, so a 32-bit    *)
(* word is the pair <<high half, low half>> of 16-bit halves and a 64-bit  *)
(* word is the pair <<low word, high word>> of 32-bit words (the layout    *)
(* the cast of share0 to a uint32_t pointer relies on).  Equality of       *)
(* words is equality of these tuples.  C arrays are sequences: C index i   *)
(* is sequence index i + 1.                                                *)
(***************************************************************************)
EXTENDS Integers, Sequences, FiniteSets, TLC

(* ----------------------------- bounds --------------------------------- *)

\* Number of invocations of provisioning_device_secrets_start() explored.
MaxCalls == 2

\* Number of faulty words injected into one buffer delivered by the CSRNG.
MaxOffending == 1

(* --------------------------- machine words ---------------------------- *)

Half16Max == 2^16 - 1

Word32(n) == <<0, n>>

Zero32 == Word32(0)

UINT32_MAX == <<Half16Max, Half16Max>>

Word64(lo, hi) == <<lo, hi>>

Zero64 == Word64(Zero32, Zero32)

UINT64_MAX == Word64(UINT32_MAX, UINT32_MAX)

\* A buffer of n 64-bit words seen through a uint32_t pointer (2n words).
Words32Of(buf64) ==
  [k \in 1..(2 * Len(buf64)) |-> buf64[(k + 1) \div 2][IF k % 2 = 1 THEN 1 ELSE 2]]

\* The uint64_t array that a buffer of 32-bit words fills.
Words64Of(buf32) ==
  [i \in 1..(Len(buf32) \div 2) |-> Word64(buf32[2 * i - 1], buf32[2 * i])]

(* ------------------------- program constants -------------------------- *)

\* OTP_CTRL_PARAM_CREATOR_ROOT_KEY_SHARE0_SIZE of otp_ctrl_regs.h, in bytes.
kRootKeyShareSizeInBytes == 32

kRootKeyShareSizeIn32BitWords == kRootKeyShareSizeInBytes \div 4

kRootKeyShareSizeIn64BitWords == kRootKeyShareSizeInBytes \div 8

kCreatorSeedSizeInBytes == 32

kCreatorSeedSizeInWords == kCreatorSeedSizeInBytes \div 4

kOwnerSeedSizeInWords == kCreatorSeedSizeInWords

kFlashInfoPartitionId == 0

kFlashInfoBankId == 0

kFlashInfoPageIdCreatorSecret == 1

kFlashInfoPageIdOwnerSecret == 2

kOtpDefaultBlankValue == 0

FlashPages == {kFlashInfoPageIdCreatorSecret, kFlashInfoPageIdOwnerSecret}

(* ------------------------------ status -------------------------------- *)

\* status_t values: OK_STATUS(), INTERNAL() and the errors a driver reports.
DriverErrors == {"ABORTED", "INTERNAL"}

DriverStatus == {"OK"} \cup DriverErrors

(* ------------------------------ state --------------------------------- *)

VARIABLES
  lc_eligible,   \* lifecycle controller: device is in DEV, PROD, PROD_END or RMA
  locked,        \* OTP: digest of the SECRET2 partition is computed
  otp,           \* OTP SECRET2: [share0, share1], each a sequence of 64-bit words
  flash,         \* flash info pages: page id -> first words of the page
  csrng_inst,    \* CSRNG: an instance is instantiated
  fn,            \* entry point being executed: "none", "start", "end" or
                 \* "owner_write" (flash_ctrl_owner_secret_write called directly)
  pc,            \* position in the source
  status,        \* status being returned (by the callee at *_ret, by fn at done)
  ops,           \* calls made in this invocation, in order: <<callee, status>>
  calls,         \* number of invocations that draw entropy so far (start() and
                 \* direct calls of flash_ctrl_owner_secret_write)
  entry_locked,  \* value of `locked` when the current invocation began
  is_locked,     \* local of start()/end()
  page_id,       \* parameter of flash_ctrl_secret_write
  len,           \* parameter of flash_ctrl_secret_write
  seed,          \* local of flash_ctrl_secret_write
  seed_result,   \* local of flash_ctrl_secret_write
  address,       \* local of flash_ctrl_secret_write
  share0,        \* local of otp_partition_secret2_configure
  share1         \* local of otp_partition_secret2_configure

device == <<lc_eligible, locked, otp, flash, csrng_inst>>

storage == <<locked, otp, flash>>

wlocals == <<page_id, len, seed, seed_result, address>>

clocals == <<share0, share1>>

vars == <<lc_eligible, locked, otp, flash, csrng_inst, fn, pc, status, ops,
          calls, entry_locked, is_locked, page_id, len, seed, seed_result,
          address, share0, share1>>

ErasedPage == [i \in 1..kCreatorSeedSizeInWords |-> UINT32_MAX]

BlankShare == [i \in 1..kRootKeyShareSizeIn64BitWords |->
                 Word64(Word32(kOtpDefaultBlankValue), Word32(kOtpDefaultBlankValue))]

(* --------------------------- pure functions --------------------------- *)

\* The loop of shares_check: iteration i (C index) of `for (i = 0; i < len; ++i)`.
RECURSIVE shares_check_loop(_, _, _, _, _)
shares_check_loop(s0, s1, n, i, found_error) ==
  IF i >= n THEN found_error
  ELSE shares_check_loop(s0, s1, n, i + 1,
         \/ found_error
         \/ s0[i + 1] = s1[i + 1]
         \/ s0[i + 1] = UINT64_MAX \/ s0[i + 1] = Zero64
         \/ s1[i + 1] = UINT64_MAX \/ s1[0 + 1] = Zero64)

\* Faulty variant of shares_check: the comparison of the two shares is
\* inverted (distinct words are reported, equal words are accepted).
shares_check_inverted(s0, s1, n) ==
  IF \E i \in 1..n : \/ s0[i] # s1[i]
                     \/ s0[i] = UINT64_MAX \/ s0[i] = Zero64
                     \/ s1[i] = UINT64_MAX \/ s1[1] = Zero64
    THEN "INTERNAL" ELSE "OK"

\* Faulty variant of shares_check: both tests of share1 look at index 0 only.
shares_check_share1_index0(s0, s1, n) ==
  IF \E i \in 1..n : \/ s0[i] = s1[i]
                     \/ s0[i] = UINT64_MAX \/ s0[i] = Zero64
                     \/ s1[1] = UINT64_MAX \/ s1[1] = Zero64
    THEN "INTERNAL" ELSE "OK"

\* shares_check(share0, share1, len): INTERNAL() if an error was found.
shares_check(s0, s1, n) ==
  IF shares_check_loop(s0, s1, n, 0, FALSE) THEN "INTERNAL" ELSE "OK"

\* The verification loop that ends flash_ctrl_secret_write.
RECURSIVE secret_verify_loop(_, _, _, _, _)
secret_verify_loop(sd, rd, n, i, found_error) ==
  IF i >= n THEN found_error
  ELSE secret_verify_loop(sd, rd, n, i + 1,
         \/ found_error
         \/ sd[i + 1] = Zero32 \/ sd[i + 1] = UINT32_MAX
         \/ sd[i + 1] # rd[i + 1])

\* Faulty variant of secret_verify: the loop stops one word early.
secret_verify_skip_last(sd, rd, n) ==
  IF secret_verify_loop(sd, rd, n - 1, 0, FALSE) THEN "INTERNAL" ELSE "OK"

\* Faulty variant of secret_verify: the words read back are not compared.
secret_verify_no_readback(sd, rd, n) ==
  IF \E i \in 1..n : sd[i] = Zero32 \/ sd[i] = UINT32_MAX
    THEN "INTERNAL" ELSE "OK"

secret_verify(sd, rd, n) ==
  IF secret_verify_loop(sd, rd, n, 0, FALSE) THEN "INTERNAL" ELSE "OK"

(* -------------------- what the peripherals deliver -------------------- *)

\* Positions of a buffer of n words at which a fault is injected:
\* the first word, a word in between and the last word.
FaultPositions(n) == {1, (n + 1) \div 2, n}

\* `base` with at most MaxOffending words, at fault positions, replaced by a
\* value of vals[position].
Inject(base, vals) ==
  LET n    == Len(base)
      all  == UNION {vals[p] : p \in FaultPositions(n)}
      maps == UNION {[S -> all] : S \in {T \in SUBSET FaultPositions(n) :
                                            Cardinality(T) <= MaxOffending}}
  IN  {[i \in 1..n |-> IF i \in DOMAIN g THEN g[i] ELSE base[i]] :
         g \in {h \in maps : \A p \in DOMAIN h : h[p] \in vals[p]}}

\* The d-th buffer of n fresh 32-bit words of a healthy entropy source:
\* consecutive nonzero values, no two buffers alike.
StreamBase(d, n) == [i \in 1..n |-> Word32(d * n + i)]

\* Number of the k-th draw (k = 0..3) of the current start() invocation.
DrawNo(k) == 4 * (calls - 1) + k

\* entropy_csrng_generate for a seed: healthy output, or output with stuck
\* words (all zeros, all ones).
SeedDraws(k, n) ==
  Inject(StreamBase(DrawNo(k), n), [p \in 1..n |-> {Zero32, UINT32_MAX}])

\* entropy_csrng_generate for share0: healthy output, or output with stuck
\* 64-bit words.
Share0Draws ==
  {Words32Of(b) :
     b \in Inject(Words64Of(StreamBase(DrawNo(2), kRootKeyShareSizeIn32BitWords)),
                  [p \in 1..kRootKeyShareSizeIn64BitWords |-> {Zero64, UINT64_MAX}])}

\* entropy_csrng_generate for share1: healthy output, output with stuck
\* 64-bit words, output repeating words of the previous draw, or the previous
\* draw all over again.
Share1Draws(prev) ==
  {Words32Of(b) :
     b \in Inject(Words64Of(StreamBase(DrawNo(3), kRootKeyShareSizeIn32BitWords)),
                  [p \in 1..kRootKeyShareSizeIn64BitWords |->
                     {Zero64, UINT64_MAX, prev[p]}])}
  \cup {Words32Of(prev)}

\* flash_ctrl_testutils_erase_and_write_page returning OK: the page holds the
\* data, or one word of it was left unprogrammed (erased flash is all ones).
ProgramOutcomes(data) ==
  {data} \cup {[data EXCEPT ![p] = UINT32_MAX] : p \in FaultPositions(Len(data))}

(* --------------------------- program order ---------------------------- *)

\* Faulty variant of start_next: the root key is configured (and the partition
\* locked) before the owner secret is written.
start_next_configure_before_owner(p) ==
  CASE p = "s_lc"           -> "s_is_locked"
    [] p = "s_is_locked"    -> "s_entropy_init"
    [] p = "s_entropy_init" -> "s_creator"
    [] p = "s_creator"      -> "s_configure"
    [] p = "s_configure"    -> "s_owner"
    [] p = "s_owner"        -> "done"

\* Faulty variant of start_next: the entropy complex is initialised only after
\* the creator secret was drawn and written.
start_next_init_late(p) ==
  CASE p = "s_lc"           -> "s_is_locked"
    [] p = "s_is_locked"    -> "s_creator"
    [] p = "s_creator"      -> "s_entropy_init"
    [] p = "s_entropy_init" -> "s_owner"
    [] p = "s_owner"        -> "s_configure"
    [] p = "s_configure"    -> "done"

\* Statement that follows statement p of provisioning_device_secrets_start
\* when p succeeds and the partition is not locked.
start_next(p) ==
  CASE p = "s_lc"           -> "s_is_locked"
    [] p = "s_is_locked"    -> "s_entropy_init"
    [] p = "s_entropy_init" -> "s_creator"
    [] p = "s_creator"      -> "s_owner"
    [] p = "s_owner"        -> "s_configure"
    [] p = "s_configure"    -> "done"

\* Faulty variant of secret_write_next: the entropy instance is torn down only
\* after the page was programmed.
secret_write_next_teardown_late(p) ==
  CASE p = "w_inst"    -> "w_gen"
    [] p = "w_gen"     -> "w_setup"
    [] p = "w_setup"   -> "w_program"
    [] p = "w_program" -> "w_uninst"
    [] p = "w_uninst"  -> "w_read"
    [] p = "w_read"    -> "w_verify"
    [] p = "w_verify"  -> "w_ret"

\* Statement that follows statement p of flash_ctrl_secret_write.
secret_write_next(p) ==
  CASE p = "w_inst"    -> "w_gen"
    [] p = "w_gen"     -> "w_uninst"
    [] p = "w_uninst"  -> "w_setup"
    [] p = "w_setup"   -> "w_program"
    [] p = "w_program" -> "w_read"
    [] p = "w_read"    -> "w_verify"
    [] p = "w_verify"  -> "w_ret"

\* Faulty variant of configure_next: the partition is locked before share1 is
\* written.
configure_next_lock_early(p) ==
  CASE p = "c_inst"   -> "c_gen0"
    [] p = "c_gen0"   -> "c_reseed"
    [] p = "c_reseed" -> "c_gen1"
    [] p = "c_gen1"   -> "c_uninst"
    [] p = "c_uninst" -> "c_check1"
    [] p = "c_check1" -> "c_write0"
    [] p = "c_write0" -> "c_lock"
    [] p = "c_lock"   -> "c_write1"
    [] p = "c_write1" -> "c_check2"
    [] p = "c_check2" -> "c_ret"

\* Faulty variant of configure_next: the shares are not validated again after
\* the second write.
configure_next_no_recheck(p) ==
  CASE p = "c_inst"   -> "c_gen0"
    [] p = "c_gen0"   -> "c_reseed"
    [] p = "c_reseed" -> "c_gen1"
    [] p = "c_gen1"   -> "c_uninst"
    [] p = "c_uninst" -> "c_check1"
    [] p = "c_check1" -> "c_write0"
    [] p = "c_write0" -> "c_write1"
    [] p = "c_write1" -> "c_lock"
    [] p = "c_check2" -> "c_lock"
    [] p = "c_lock"   -> "c_ret"

\* Statement that follows statement p of otp_partition_secret2_configure.
configure_next(p) ==
  CASE p = "c_inst"   -> "c_gen0"
    [] p = "c_gen0"   -> "c_reseed"
    [] p = "c_reseed" -> "c_gen1"
    [] p = "c_gen1"   -> "c_uninst"
    [] p = "c_uninst" -> "c_check1"
    [] p = "c_check1" -> "c_write0"
    [] p = "c_write0" -> "c_write1"
    [] p = "c_write1" -> "c_check2"
    [] p = "c_check2" -> "c_lock"
    [] p = "c_lock"   -> "c_ret"

\* TRY(callee(...)): the call is recorded; a status that is not OK is returned
\* at once (control goes to `out`), otherwise control goes on to `next`, and
\* when the function ends there it returns OK_STATUS().
Try(callee, st, next, out) ==
  /\ ops' = Append(ops, <<callee, st>>)
  /\ pc' = IF st = "OK" THEN next ELSE out
  /\ status' = IF st # "OK" THEN st ELSE IF next = out THEN "OK" ELSE status

(* ------------------------------- Init --------------------------------- *)

\* A blank, unlocked device in either kind of lifecycle state; no entry
\* point has been called yet.
Init ==
  /\ lc_eligible \in BOOLEAN
  /\ locked = FALSE
  /\ otp = [share0 |-> BlankShare, share1 |-> BlankShare]
  /\ flash = [p \in FlashPages |-> ErasedPage]
  /\ csrng_inst = FALSE
  /\ fn = "none"
  /\ pc = "done"
  /\ status = "PENDING"
  /\ ops = <<>>
  /\ calls = 0
  /\ entry_locked = FALSE
  /\ is_locked = FALSE
  /\ page_id = 0
  /\ len = 0
  /\ seed = <<>>
  /\ seed_result = <<>>
  /\ address = 0
  /\ share0 = <<>>
  /\ share1 = <<>>

(* ----------------- provisioning_device_secrets_start ------------------ *)

\* Faulty variant of StartCall: start() begins with the lock query, the
\* lifecycle check is left out.
StartCall_QueryFirst ==
  /\ pc = "done"
  /\ calls < MaxCalls
  /\ calls' = calls + 1
  /\ fn' = "start"
  /\ pc' = "s_is_locked"
  /\ status' = "PENDING"
  /\ ops' = <<>>
  /\ entry_locked' = locked
  /\ is_locked' \in BOOLEAN
  /\ page_id' = 0 /\ len' = 0 /\ seed' = <<>> /\ seed_result' = <<>>
  /\ address' = 0 /\ share0' = <<>> /\ share1' = <<>>
  /\ UNCHANGED device

\* The caller invokes provisioning_device_secrets_start().  The locals are
\* not initialised: `bool is_locked;` holds an arbitrary value.
StartCall ==
  /\ pc = "done"
  /\ calls < MaxCalls
  /\ calls' = calls + 1
  /\ fn' = "start"
  /\ pc' = "s_lc"
  /\ status' = "PENDING"
  /\ ops' = <<>>
  /\ entry_locked' = locked
  /\ is_locked' \in BOOLEAN
  /\ page_id' = 0 /\ len' = 0 /\ seed' = <<>> /\ seed_result' = <<>>
  /\ address' = 0 /\ share0' = <<>> /\ share1' = <<>>
  /\ UNCHANGED device

\* Status of lc_ctrl_testutils_operational_state_check: an error when the
\* device is not in an operational state, or when the controller fails.
LcCheckStatus == IF lc_eligible THEN DriverStatus ELSE {"FAILED_PRECONDITION"}

\* Faulty variant of LcCheck: the status of the check is dropped.
LcCheck_Unchecked ==
  /\ fn = "start" /\ pc = "s_lc"
  /\ \E st \in LcCheckStatus :
       /\ ops' = Append(ops, <<"lc_ctrl_testutils_operational_state_check", st>>)
       /\ pc' = start_next("s_lc")
  /\ UNCHANGED <<device, fn, status, calls, entry_locked, is_locked, wlocals, clocals>>

\* TRY(lc_ctrl_testutils_operational_state_check(lc_ctrl));
LcCheck ==
  /\ fn = "start" /\ pc = "s_lc"
  /\ \E st \in LcCheckStatus :
       Try("lc_ctrl_testutils_operational_state_check", st, start_next("s_lc"), "done")
  /\ UNCHANGED <<device, fn, calls, entry_locked, is_locked, wlocals, clocals>>

\* Faulty variant of IsLockedStart: no early return when the partition is
\* locked.
IsLockedStart_NoSkip ==
  /\ fn = "start" /\ pc = "s_is_locked"
  /\ \E st \in DriverStatus :
       /\ is_locked' = IF st = "OK" THEN locked ELSE is_locked
       /\ Try("dif_otp_ctrl_is_digest_computed", st, start_next("s_is_locked"), "done")
  /\ UNCHANGED <<device, fn, calls, entry_locked, wlocals, clocals>>

\* Faulty variant of IsLockedStart: a partition that holds shares is treated
\* as provisioned, locked or not.
IsLockedStart_SkipPopulated ==
  /\ fn = "start" /\ pc = "s_is_locked"
  /\ \E st \in DriverStatus :
       /\ is_locked' = IF st = "OK" THEN (locked \/ otp.share0 # BlankShare)
                                    ELSE is_locked
       /\ Try("dif_otp_ctrl_is_digest_computed", st,
              IF is_locked' THEN "done" ELSE start_next("s_is_locked"), "done")
  /\ UNCHANGED <<device, fn, calls, entry_locked, wlocals, clocals>>

\* Faulty variant of IsLockedStart: the status of the lock query is dropped
\* and start() goes by whatever is_locked holds.
IsLockedStart_QueryUnchecked ==
  /\ fn = "start" /\ pc = "s_is_locked"
  /\ \E st \in DriverStatus :
       /\ is_locked' = IF st = "OK" THEN locked ELSE is_locked
       /\ ops' = Append(ops, <<"dif_otp_ctrl_is_digest_computed", st>>)
       /\ pc' = IF is_locked' THEN "done" ELSE start_next("s_is_locked")
       /\ status' = IF is_locked' THEN "OK" ELSE status
  /\ UNCHANGED <<device, fn, calls, entry_locked, wlocals, clocals>>

\* bool is_locked; TRY(otp_partition_secret2_is_locked(otp, &is_locked));
\* if (is_locked) { return OK_STATUS(); }
IsLockedStart ==
  /\ fn = "start" /\ pc = "s_is_locked"
  /\ \E st \in DriverStatus :
       /\ is_locked' = IF st = "OK" THEN locked ELSE is_locked
       /\ Try("dif_otp_ctrl_is_digest_computed", st,
              IF is_locked' THEN "done" ELSE start_next("s_is_locked"), "done")
  /\ UNCHANGED <<device, fn, calls, entry_locked, wlocals, clocals>>

\* Faulty variant of EntropyComplexInit: the status of the call is dropped.
EntropyComplexInit_Unchecked ==
  /\ fn = "start" /\ pc = "s_entropy_init"
  /\ \E st \in DriverStatus :
       /\ ops' = Append(ops, <<"entropy_complex_init", st>>)
       /\ pc' = start_next("s_entropy_init")
  /\ UNCHANGED <<device, fn, status, calls, entry_locked, is_locked, wlocals, clocals>>

\* TRY(entropy_complex_init());
EntropyComplexInit ==
  /\ fn = "start" /\ pc = "s_entropy_init"
  /\ \E st \in DriverStatus :
       Try("entropy_complex_init", st, start_next("s_entropy_init"), "done")
  /\ UNCHANGED <<device, fn, calls, entry_locked, is_locked, wlocals, clocals>>

\* flash_ctrl_creator_secret_write calls flash_ctrl_secret_write.
CreatorSecretWrite ==
  /\ fn = "start" /\ pc = "s_creator"
  /\ page_id' = kFlashInfoPageIdCreatorSecret
  /\ len' = kCreatorSeedSizeInWords
  /\ pc' = "w_inst"
  /\ UNCHANGED <<device, fn, status, ops, calls, entry_locked, is_locked,
                 seed, seed_result, address, clocals>>

\* flash_ctrl_owner_secret_write calls flash_ctrl_secret_write.
OwnerSecretWrite ==
  /\ fn = "start" /\ pc = "s_owner"
  /\ page_id' = kFlashInfoPageIdOwnerSecret
  /\ len' = kOwnerSeedSizeInWords
  /\ pc' = "w_inst"
  /\ UNCHANGED <<device, fn, status, ops, calls, entry_locked, is_locked,
                 seed, seed_result, address, clocals>>

\* Faulty variant of SecretWriteReturn: a failed secret write is started again.
SecretWriteReturn_Retry(at) ==
  /\ fn = "start" /\ pc = "w_ret"
  /\ pc' = IF status = "OK" THEN start_next(at) ELSE "w_inst"
  /\ page_id' = page_id /\ len' = len /\ seed' = <<>> /\ seed_result' = <<>>
  /\ address' = 0
  /\ UNCHANGED <<device, fn, status, ops, calls, entry_locked, is_locked, clocals>>

\* flash_ctrl_secret_write has returned `status` to the statement `at` of
\* start(): TRY passes an error on, otherwise start() goes on.  The locals of
\* flash_ctrl_secret_write go out of scope.
SecretWriteReturn(at) ==
  /\ fn = "start" /\ pc = "w_ret"
  /\ pc' = IF status = "OK" THEN start_next(at) ELSE "done"
  /\ page_id' = 0 /\ len' = 0 /\ seed' = <<>> /\ seed_result' = <<>> /\ address' = 0
  /\ UNCHANGED <<device, fn, status, ops, calls, entry_locked, is_locked, clocals>>

\* Faulty variant of CreatorSecretWriteReturn: the status of the creator
\* secret write is dropped.
CreatorSecretWriteReturn_Unchecked ==
  /\ page_id = kFlashInfoPageIdCreatorSecret
  /\ fn = "start" /\ pc = "w_ret"
  /\ pc' = start_next("s_creator")
  /\ page_id' = 0 /\ len' = 0 /\ seed' = <<>> /\ seed_result' = <<>> /\ address' = 0
  /\ UNCHANGED <<device, fn, status, ops, calls, entry_locked, is_locked, clocals>>

\* TRY(flash_ctrl_creator_secret_write(flash_state));
CreatorSecretWriteReturn ==
  /\ page_id = kFlashInfoPageIdCreatorSecret
  /\ SecretWriteReturn("s_creator")

\* TRY(flash_ctrl_owner_secret_write(flash_state));
OwnerSecretWriteReturn ==
  /\ page_id = kFlashInfoPageIdOwnerSecret
  /\ SecretWriteReturn("s_owner")

\* flash_ctrl_owner_secret_write has external linkage: a caller invokes it
\* directly, outside start().  It calls flash_ctrl_secret_write for the owner
\* page; there is no lifecycle check and no lock query on this path.
OwnerSecretWriteCall ==
  /\ pc = "done"
  /\ calls < MaxCalls
  /\ calls' = calls + 1
  /\ fn' = "owner_write"
  /\ page_id' = kFlashInfoPageIdOwnerSecret
  /\ len' = kOwnerSeedSizeInWords
  /\ pc' = "w_inst"
  /\ status' = "PENDING"
  /\ ops' = <<>>
  /\ entry_locked' = locked
  /\ is_locked' = FALSE
  /\ seed' = <<>> /\ seed_result' = <<>> /\ address' = 0
  /\ share0' = <<>> /\ share1' = <<>>
  /\ UNCHANGED device

\* TRY(flash_ctrl_secret_write(...)); return OK_STATUS(); when
\* flash_ctrl_owner_secret_write was called directly: `status` goes to the
\* caller.
OwnerSecretWriteExit ==
  /\ fn = "owner_write" /\ pc = "w_ret"
  /\ pc' = "done"
  /\ page_id' = 0 /\ len' = 0 /\ seed' = <<>> /\ seed_result' = <<>> /\ address' = 0
  /\ UNCHANGED <<device, fn, status, ops, calls, entry_locked, is_locked, clocals>>

\* start() calls otp_partition_secret2_configure.
ConfigureCall ==
  /\ fn = "start" /\ pc = "s_configure"
  /\ pc' = "c_inst"
  /\ UNCHANGED <<device, fn, status, ops, calls, entry_locked, is_locked,
                 wlocals, clocals>>

\* Faulty variant of ConfigureReturn: when the configure step failed, the two
\* flash secret pages are erased again.
ConfigureReturn_Rollback ==
  /\ fn = "start" /\ pc = "c_ret"
  /\ pc' = IF status = "OK" THEN start_next("s_configure") ELSE "done"
  /\ flash' = IF status = "OK" THEN flash ELSE [p \in FlashPages |-> ErasedPage]
  /\ share0' = <<>> /\ share1' = <<>>
  /\ UNCHANGED <<lc_eligible, locked, otp, csrng_inst, fn, status, ops, calls,
                 entry_locked, is_locked, wlocals>>

\* TRY(otp_partition_secret2_configure(otp)); return OK_STATUS();
ConfigureReturn ==
  /\ fn = "start" /\ pc = "c_ret"
  /\ pc' = IF status = "OK" THEN start_next("s_configure") ELSE "done"
  /\ share0' = <<>> /\ share1' = <<>>
  /\ UNCHANGED <<device, fn, status, ops, calls, entry_locked, is_locked, wlocals>>

(* ---------------------- flash_ctrl_secret_write ----------------------- *)

\* TRY(entropy_csrng_instantiate(kHardenedBoolFalse, NULL));
SecretInstantiate ==
  /\ pc = "w_inst"
  /\ \E st \in DriverStatus :
       /\ Try("entropy_csrng_instantiate", st, secret_write_next("w_inst"), "w_ret")
       /\ csrng_inst' = IF st = "OK" THEN TRUE ELSE csrng_inst
  /\ UNCHANGED <<lc_eligible, storage, fn, calls, entry_locked, is_locked,
                 wlocals, clocals>>

\* uint32_t seed[kCreatorSeedSizeInWords];
\* TRY(entropy_csrng_generate(NULL, seed, len));
SecretGenerate ==
  /\ pc = "w_gen"
  /\ \E st \in DriverStatus :
       /\ Try("entropy_csrng_generate", st, secret_write_next("w_gen"), "w_ret")
       /\ IF st = "OK"
            THEN seed' \in SeedDraws(IF page_id = kFlashInfoPageIdCreatorSecret
                                       THEN 0 ELSE 1, len)
            ELSE seed' = seed
  /\ UNCHANGED <<device, fn, calls, entry_locked, is_locked,
                 page_id, len, seed_result, address, clocals>>

\* TRY(entropy_csrng_uninstantiate());
SecretUninstantiate ==
  /\ pc = "w_uninst"
  /\ \E st \in DriverStatus :
       /\ Try("entropy_csrng_uninstantiate", st, secret_write_next("w_uninst"), "w_ret")
       /\ csrng_inst' = IF st = "OK" THEN FALSE ELSE csrng_inst
  /\ UNCHANGED <<lc_eligible, storage, fn, calls, entry_locked, is_locked,
                 wlocals, clocals>>

\* Faulty variant of SecretRegionSetup: every secret goes to the creator page.
SecretRegionSetup_SamePage ==
  /\ pc = "w_setup"
  /\ \E st \in DriverStatus :
       /\ Try("flash_ctrl_testutils_info_region_scrambled_setup", st,
              secret_write_next("w_setup"), "w_ret")
       /\ address' = IF st = "OK" THEN kFlashInfoPageIdCreatorSecret ELSE 0
  /\ UNCHANGED <<device, fn, calls, entry_locked, is_locked,
                 page_id, len, seed, seed_result, clocals>>

\* uint32_t address = 0;
\* TRY(flash_ctrl_testutils_info_region_scrambled_setup(flash_state, page_id,
\*     bank_id, partition_id, &address));
\* The address delivered identifies the info page.
SecretRegionSetup ==
  /\ pc = "w_setup"
  /\ \E st \in DriverStatus :
       /\ Try("flash_ctrl_testutils_info_region_scrambled_setup", st,
              secret_write_next("w_setup"), "w_ret")
       /\ address' = IF st = "OK" THEN page_id ELSE 0
  /\ UNCHANGED <<device, fn, calls, entry_locked, is_locked,
                 page_id, len, seed, seed_result, clocals>>

\* TRY(flash_ctrl_testutils_erase_and_write_page(flash_state, address,
\*     partition_id, seed, kDifFlashCtrlPartitionTypeInfo, len));
\* A failed call leaves the page as it was, or erased.
SecretProgram ==
  /\ pc = "w_program"
  /\ \E st \in DriverStatus :
       /\ Try("flash_ctrl_testutils_erase_and_write_page", st,
              secret_write_next("w_program"), "w_ret")
       /\ \E page \in IF st = "OK" THEN ProgramOutcomes(seed)
                                   ELSE {flash[address], ErasedPage} :
            flash' = [flash EXCEPT ![address] = page]
  /\ UNCHANGED <<lc_eligible, locked, otp, csrng_inst, fn, calls, entry_locked,
                 is_locked, wlocals, clocals>>

\* uint32_t seed_result[kCreatorSeedSizeInWords];
\* TRY(flash_ctrl_testutils_read(flash_state, address, partition_id,
\*     seed_result, kDifFlashCtrlPartitionTypeInfo, len, 0));
SecretRead ==
  /\ pc = "w_read"
  /\ \E st \in DriverStatus :
       /\ Try("flash_ctrl_testutils_read", st, secret_write_next("w_read"), "w_ret")
       /\ seed_result' = IF st = "OK" THEN SubSeq(flash[address], 1, len)
                                      ELSE seed_result
  /\ UNCHANGED <<device, fn, calls, entry_locked, is_locked,
                 page_id, len, seed, address, clocals>>

\* bool found_error = false; for (...) { found_error |= ...; }
\* return found_error ? INTERNAL() : OK_STATUS();
SecretVerify ==
  /\ pc = "w_verify"
  /\ Try("secret_verify", secret_verify(seed, seed_result, len),
         secret_write_next("w_verify"), "w_ret")
  /\ UNCHANGED <<device, fn, calls, entry_locked, is_locked, wlocals, clocals>>

(* ------------------ otp_partition_secret2_configure ------------------- *)

\* TRY(entropy_csrng_instantiate(kHardenedBoolFalse, NULL));
ConfigureInstantiate ==
  /\ pc = "c_inst"
  /\ \E st \in DriverStatus :
       /\ Try("entropy_csrng_instantiate", st, configure_next("c_inst"), "c_ret")
       /\ csrng_inst' = IF st = "OK" THEN TRUE ELSE csrng_inst
  /\ UNCHANGED <<lc_eligible, storage, fn, calls, entry_locked, is_locked,
                 wlocals, clocals>>

\* uint64_t share0[kRootKeyShareSizeIn64BitWords];
\* TRY(entropy_csrng_generate(NULL, share0 as uint32_t pointer,
\*     kRootKeyShareSizeIn32BitWords));
ConfigureGenerateShare0 ==
  /\ pc = "c_gen0"
  /\ \E st \in DriverStatus :
       /\ Try("entropy_csrng_generate", st, configure_next("c_gen0"), "c_ret")
       /\ IF st = "OK"
            THEN \E buf \in Share0Draws : share0' = Words64Of(buf)
            ELSE share0' = share0
  /\ UNCHANGED <<device, fn, calls, entry_locked, is_locked, wlocals, share1>>

\* Faulty variant of ConfigureReseed: a fresh instance is instantiated between
\* the two draws instead of reseeding the one in use.
ConfigureReseed_Instantiate ==
  /\ pc = "c_reseed"
  /\ \E st \in DriverStatus :
       Try("entropy_csrng_instantiate", st, configure_next("c_reseed"), "c_ret")
  /\ UNCHANGED <<device, fn, calls, entry_locked, is_locked, wlocals, clocals>>

\* TRY(entropy_csrng_reseed(kHardenedBoolFalse, NULL));
ConfigureReseed ==
  /\ pc = "c_reseed"
  /\ \E st \in DriverStatus :
       Try("entropy_csrng_reseed", st, configure_next("c_reseed"), "c_ret")
  /\ UNCHANGED <<device, fn, calls, entry_locked, is_locked, wlocals, clocals>>

\* uint64_t share1[kRootKeyShareSizeIn64BitWords];
\* TRY(entropy_csrng_generate(NULL, share1 as uint32_t pointer,
\*     kRootKeyShareSizeIn32BitWords));
ConfigureGenerateShare1 ==
  /\ pc = "c_gen1"
  /\ \E st \in DriverStatus :
       /\ Try("entropy_csrng_generate", st, configure_next("c_gen1"), "c_ret")
       /\ IF st = "OK"
            THEN \E buf \in Share1Draws(share0) : share1' = Words64Of(buf)
            ELSE share1' = share1
  /\ UNCHANGED <<device, fn, calls, entry_locked, is_locked, wlocals, share0>>

\* TRY(entropy_csrng_uninstantiate());
ConfigureUninstantiate ==
  /\ pc = "c_uninst"
  /\ \E st \in DriverStatus :
       /\ Try("entropy_csrng_uninstantiate", st, configure_next("c_uninst"), "c_ret")
       /\ csrng_inst' = IF st = "OK" THEN FALSE ELSE csrng_inst
  /\ UNCHANGED <<lc_eligible, storage, fn, calls, entry_locked, is_locked,
                 wlocals, clocals>>

\* Faulty variant of ConfigureSharesCheck1: the result of the check is dropped.
ConfigureSharesCheck1_Unchecked ==
  /\ pc = "c_check1"
  /\ ops' = Append(ops, <<"shares_check",
                          shares_check(share0, share1, kRootKeyShareSizeIn64BitWords)>>)
  /\ pc' = configure_next("c_check1")
  /\ UNCHANGED <<device, fn, status, calls, entry_locked, is_locked, wlocals, clocals>>

\* TRY(shares_check(share0, share1, kRootKeyShareSizeIn64BitWords));
\* before the OTP writes.
ConfigureSharesCheck1 ==
  /\ pc = "c_check1"
  /\ Try("shares_check", shares_check(share0, share1, kRootKeyShareSizeIn64BitWords),
         configure_next("c_check1"), "c_ret")
  /\ UNCHANGED <<device, fn, calls, entry_locked, is_locked, wlocals, clocals>>

\* Faulty variant of ConfigureWriteShare0: the write clears its source buffer.
ConfigureWriteShare0_ClobbersSource ==
  /\ pc = "c_write0"
  /\ \E st \in DriverStatus :
       /\ Try("otp_ctrl_testutils_dai_write64", st, configure_next("c_write0"), "c_ret")
       /\ otp' = IF st = "OK" THEN [otp EXCEPT !.share0 = share0] ELSE otp
       /\ share0' = IF st = "OK" THEN BlankShare ELSE share0
  /\ UNCHANGED <<lc_eligible, locked, flash, csrng_inst, fn, calls, entry_locked,
                 is_locked, wlocals, share1>>

\* TRY(otp_ctrl_testutils_dai_write64(otp, kDifOtpCtrlPartitionSecret2,
\*     kRootKeyOffsetShare0, share0, kRootKeyShareSizeIn64BitWords));
ConfigureWriteShare0 ==
  /\ pc = "c_write0"
  /\ \E st \in DriverStatus :
       /\ Try("otp_ctrl_testutils_dai_write64", st, configure_next("c_write0"), "c_ret")
       /\ otp' = IF st = "OK" THEN [otp EXCEPT !.share0 = share0] ELSE otp
  /\ UNCHANGED <<lc_eligible, locked, flash, csrng_inst, fn, calls, entry_locked,
                 is_locked, wlocals, clocals>>

\* Faulty variant of ConfigureWriteShare1: the status of the write is dropped.
ConfigureWriteShare1_Unchecked ==
  /\ pc = "c_write1"
  /\ \E st \in DriverStatus :
       /\ ops' = Append(ops, <<"otp_ctrl_testutils_dai_write64", st>>)
       /\ pc' = configure_next("c_write1")
       /\ otp' = IF st = "OK" THEN [otp EXCEPT !.share1 = share1] ELSE otp
  /\ UNCHANGED <<lc_eligible, locked, flash, csrng_inst, fn, status, calls,
                 entry_locked, is_locked, wlocals, clocals>>

\* TRY(otp_ctrl_testutils_dai_write64(otp, kDifOtpCtrlPartitionSecret2,
\*     kRootKeyOffsetShare1, share1, kRootKeyShareSizeIn64BitWords));
ConfigureWriteShare1 ==
  /\ pc = "c_write1"
  /\ \E st \in DriverStatus :
       /\ Try("otp_ctrl_testutils_dai_write64", st, configure_next("c_write1"), "c_ret")
       /\ otp' = IF st = "OK" THEN [otp EXCEPT !.share1 = share1] ELSE otp
  /\ UNCHANGED <<lc_eligible, locked, flash, csrng_inst, fn, calls, entry_locked,
                 is_locked, wlocals, clocals>>

\* TRY(shares_check(share0, share1, kRootKeyShareSizeIn64BitWords));
\* after the OTP writes.
ConfigureSharesCheck2 ==
  /\ pc = "c_check2"
  /\ Try("shares_check", shares_check(share0, share1, kRootKeyShareSizeIn64BitWords),
         configure_next("c_check2"), "c_ret")
  /\ UNCHANGED <<device, fn, calls, entry_locked, is_locked, wlocals, clocals>>

\* Faulty variant of ConfigureLock: the status of the lock call is dropped.
ConfigureLock_Unchecked ==
  /\ pc = "c_lock"
  /\ \E st \in DriverStatus :
       /\ ops' = Append(ops, <<"otp_ctrl_testutils_lock_partition", st>>)
       /\ pc' = configure_next("c_lock")
       /\ status' = "OK"
       /\ locked' = IF st = "OK" THEN TRUE ELSE locked
  /\ UNCHANGED <<lc_eligible, otp, flash, csrng_inst, fn, calls, entry_locked,
                 is_locked, wlocals, clocals>>

\* TRY(otp_ctrl_testutils_lock_partition(otp, kDifOtpCtrlPartitionSecret2, 0));
\* return OK_STATUS();
ConfigureLock ==
  /\ pc = "c_lock"
  /\ \E st \in DriverStatus :
       /\ Try("otp_ctrl_testutils_lock_partition", st, configure_next("c_lock"), "c_ret")
       /\ locked' = IF st = "OK" THEN TRUE ELSE locked
  /\ UNCHANGED <<lc_eligible, otp, flash, csrng_inst, fn, calls, entry_locked,
                 is_locked, wlocals, clocals>>

(* ------------------ provisioning_device_secrets_end ------------------- *)

\* The caller invokes provisioning_device_secrets_end().
EndCall ==
  /\ pc = "done"
  /\ fn' = "end"
  /\ pc' = "e_is_locked"
  /\ status' = "PENDING"
  /\ ops' = <<>>
  /\ entry_locked' = locked
  /\ is_locked' \in BOOLEAN
  /\ page_id' = 0 /\ len' = 0 /\ seed' = <<>> /\ seed_result' = <<>>
  /\ address' = 0 /\ share0' = <<>> /\ share1' = <<>>
  /\ UNCHANGED <<device, calls>>

\* Faulty variant of end_result: the two results are swapped.
end_result_inverted(l) == IF l THEN "INTERNAL" ELSE "OK"

\* return is_locked ? OK_STATUS() : INTERNAL();
end_result(l) == IF l THEN "OK" ELSE "INTERNAL"

\* Faulty variant of IsLockedEnd: end() locks a partition it finds unlocked.
IsLockedEnd_Locks ==
  /\ fn = "end" /\ pc = "e_is_locked"
  /\ \E st \in DriverStatus :
       /\ is_locked' = IF st = "OK" THEN locked ELSE is_locked
       /\ ops' = IF st = "OK" /\ ~locked
                   THEN ops \o <<<<"dif_otp_ctrl_is_digest_computed", st>>,
                                 <<"otp_ctrl_testutils_lock_partition", "OK">>>>
                   ELSE Append(ops, <<"dif_otp_ctrl_is_digest_computed", st>>)
       /\ locked' = IF st = "OK" THEN TRUE ELSE locked
       /\ status' = IF st = "OK" THEN end_result(is_locked') ELSE st
       /\ pc' = "done"
  /\ UNCHANGED <<lc_eligible, otp, flash, csrng_inst, fn, calls, entry_locked,
                 wlocals, clocals>>

\* bool is_locked; TRY(otp_partition_secret2_is_locked(otp, &is_locked));
\* return is_locked ? OK_STATUS() : INTERNAL();
IsLockedEnd ==
  /\ fn = "end" /\ pc = "e_is_locked"
  /\ \E st \in DriverStatus :
       /\ is_locked' = IF st = "OK" THEN locked ELSE is_locked
       /\ ops' = Append(ops, <<"dif_otp_ctrl_is_digest_computed", st>>)
       /\ status' = IF st = "OK" THEN end_result(is_locked') ELSE st
       /\ pc' = "done"
  /\ UNCHANGED <<device, fn, calls, entry_locked, wlocals, clocals>>

(* ---------------------------- environment ---------------------------- *)

\* Faulty variant of LifecycleTransition: the transition wipes the digest of
\* the SECRET2 partition.
LifecycleTransition_WipesDigest ==
  /\ pc = "done"
  /\ lc_eligible' = ~lc_eligible
  /\ locked' = FALSE
  /\ UNCHANGED <<otp, flash, csrng_inst, fn, pc, status, ops, calls, entry_locked,
                 is_locked, wlocals, clocals>>

\* Between two invocations the device may be moved to another lifecycle
\* state by a lifecycle transition, which this flow does not perform.
LifecycleTransition ==
  /\ pc = "done"
  /\ lc_eligible' = ~lc_eligible
  /\ UNCHANGED <<storage, csrng_inst, fn, pc, status, ops, calls, entry_locked,
                 is_locked, wlocals, clocals>>

\* Power is lost while an entry point is executing: the invocation ends
\* without returning, locals and the CSRNG instance are gone, and what was
\* written to OTP and flash stays.
PowerLoss ==
  /\ fn \in {"start", "end", "owner_write"} /\ pc # "done"
  /\ fn' = "none"
  /\ pc' = "done"
  /\ status' = "PENDING"
  /\ ops' = <<>>
  /\ csrng_inst' = FALSE
  /\ entry_locked' = locked
  /\ is_locked' = FALSE
  /\ page_id' = 0 /\ len' = 0 /\ seed' = <<>> /\ seed_result' = <<>>
  /\ address' = 0 /\ share0' = <<>> /\ share1' = <<>>
  /\ UNCHANGED <<lc_eligible, storage, calls>>

(* ------------------------------- Next --------------------------------- *)

\* The provisioning flow: sequences of start() and end() invocations, with
\* lifecycle transitions and power loss between or during them.
FlowNext ==
  \/ StartCall
  \/ LcCheck
  \/ IsLockedStart
  \/ EntropyComplexInit
  \/ CreatorSecretWrite
  \/ CreatorSecretWriteReturn
  \/ OwnerSecretWrite
  \/ OwnerSecretWriteReturn
  \/ ConfigureCall
  \/ ConfigureReturn
  \/ SecretInstantiate
  \/ SecretGenerate
  \/ SecretUninstantiate
  \/ SecretRegionSetup
  \/ SecretProgram
  \/ SecretRead
  \/ SecretVerify
  \/ ConfigureInstantiate
  \/ ConfigureGenerateShare0
  \/ ConfigureReseed
  \/ ConfigureGenerateShare1
  \/ ConfigureUninstantiate
  \/ ConfigureSharesCheck1
  \/ ConfigureWriteShare0
  \/ ConfigureWriteShare1
  \/ ConfigureSharesCheck2
  \/ ConfigureLock
  \/ EndCall
  \/ IsLockedEnd
  \/ LifecycleTransition
  \/ PowerLoss

\* The whole translation unit: the flow, and flash_ctrl_owner_secret_write
\* invoked through its external linkage.
Next ==
  \/ FlowNext
  \/ OwnerSecretWriteCall
  \/ OwnerSecretWriteExit

Spec == Init /\ [][Next]_vars

FlowSpec == Init /\ [][FlowNext]_vars

\* One statement of the function in progress.  The code is a single thread of
\* straight-line statements, so whenever a statement is pending and every
\* peripheral call returns, the statement is executed.
FlowStep ==
  \/ LcCheck \/ IsLockedStart \/ EntropyComplexInit
  \/ CreatorSecretWrite \/ CreatorSecretWriteReturn
  \/ OwnerSecretWrite \/ OwnerSecretWriteReturn
  \/ ConfigureCall \/ ConfigureReturn
  \/ SecretInstantiate \/ SecretGenerate \/ SecretUninstantiate
  \/ SecretRegionSetup \/ SecretProgram \/ SecretRead \/ SecretVerify
  \/ ConfigureInstantiate \/ ConfigureGenerateShare0 \/ ConfigureReseed
  \/ ConfigureGenerateShare1 \/ ConfigureUninstantiate
  \/ ConfigureSharesCheck1 \/ ConfigureWriteShare0 \/ ConfigureWriteShare1
  \/ ConfigureSharesCheck2 \/ ConfigureLock
  \/ IsLockedEnd

\* The flow under the assumption that every peripheral call returns.
FairSpec == FlowSpec /\ WF_vars(FlowStep)

(* ----------------------- vocabulary of the claims ---------------------- *)

LcOp == "lc_ctrl_testutils_operational_state_check"

QueryOp == "dif_otp_ctrl_is_digest_computed"

LockOp == "otp_ctrl_testutils_lock_partition"

OtpWriteOp == "otp_ctrl_testutils_dai_write64"

EntropyOps == {"entropy_complex_init", "entropy_csrng_instantiate",
               "entropy_csrng_generate", "entropy_csrng_reseed",
               "entropy_csrng_uninstantiate"}

FlashOps == {"flash_ctrl_testutils_info_region_scrambled_setup",
             "flash_ctrl_testutils_erase_and_write_page",
             "flash_ctrl_testutils_read"}

\* The checks the flow computes itself; every other entry of `ops` is a call
\* of a peripheral.
InternalChecks == {"shares_check", "secret_verify"}

\* Entropy, flash, OTP-write and lock operations.
EffectOps == EntropyOps \cup FlashOps \cup {OtpWriteOp, LockOp}

Callee(i) == ops[i][1]

Result(i) == ops[i][2]

LastOp == ops[Len(ops)]

Returned(f) == fn = f /\ pc = "done"

NoEffectOps == \A i \in 1..Len(ops) : Callee(i) \notin EffectOps

\* The data-model rule for a pair of shares: every pair of words differs and
\* no word of either share is all zeros or all ones.
SharesValid(s0, s1) ==
  \A i \in 1..Len(s0) :
    /\ s0[i] # s1[i]
    /\ s0[i] # Zero64 /\ s0[i] # UINT64_MAX
    /\ s1[i] # Zero64 /\ s1[i] # UINT64_MAX

\* A seed none of whose words is 0 or all ones.
SeedValid(sd) == \A i \in 1..Len(sd) : sd[i] # Zero32 /\ sd[i] # UINT32_MAX

\* Both shares of otp_partition_secret2_configure have been drawn.
SharesDrawn ==
  /\ Len(share0) = kRootKeyShareSizeIn64BitWords
  /\ Len(share1) = kRootKeyShareSizeIn64BitWords

(* ------------------------------- claims ------------------------------- *)

\* C1: when start() is invoked with the lifecycle gate reporting eligible and
\* the SECRET2 partition already locked, it performs no entropy operation, no
\* flash operation, no OTP write and no lock, and, the lock query having
\* answered, it returns success after the two checks and nothing else.
C1_LockedStartIsNoOp ==
  (/\ Returned("start") /\ entry_locked
   /\ Len(ops) >= 1 /\ ops[1] = <<LcOp, "OK">>)
  => /\ NoEffectOps
     /\ locked
     /\ (Len(ops) >= 2 /\ ops[2] = <<QueryOp, "OK">>)
          => (status = "OK" /\ Len(ops) = 2)

\* A second start() after a first start() that locked the partition has
\* returned success.
C1_Witness ==
  /\ Returned("start") /\ calls = 2 /\ entry_locked
  /\ ops = <<<<LcOp, "OK">>, <<QueryOp, "OK">>>>
  /\ status = "OK"

\* C2: when the lifecycle gate reports the device ineligible, start() returns
\* an error and performs no entropy draw, no flash write, no OTP write and no
\* lock (the lifecycle check is its only call), whatever the lock state.
C2_IneligibleFailsClean ==
  (/\ Returned("start")
   /\ Len(ops) >= 1 /\ Callee(1) = LcOp /\ Result(1) # "OK")
  => /\ status # "OK"
     /\ ops = <<<<LcOp, status>>>>
     /\ locked = entry_locked

\* start() has failed on an ineligible device whose partition is locked.
C2_Witness ==
  /\ Returned("start") /\ ~lc_eligible /\ entry_locked
  /\ ops = <<<<LcOp, "FAILED_PRECONDITION">>>>
  /\ status = "FAILED_PRECONDITION"

\* C3: end() returns success if and only if the lock query succeeds and
\* reports the partition locked; a failed query surfaces its own error.
C3_EndIffLocked ==
  Returned("end")
  => /\ Len(ops) = 1 /\ Callee(1) = QueryOp
     /\ (status = "OK") <=> (Result(1) = "OK" /\ locked)
     /\ (Result(1) # "OK") => (status = Result(1))

\* end() has returned the error of a failed query on a locked partition.
C3_Witness ==
  /\ Returned("end") /\ locked
  /\ ops = <<<<QueryOp, "ABORTED">>>> /\ status = "ABORTED"

\* C4: in start() nothing follows the lock call, and a successful start()
\* that did not skip ends with the lock call as its last operation.
C4_LockIsLast ==
  fn = "start"
  => /\ \A i \in 1..Len(ops) : Callee(i) = LockOp => i = Len(ops)
     /\ (pc = "done" /\ status = "OK" /\ ~entry_locked)
          => (Len(ops) > 0 /\ LastOp = <<LockOp, "OK">>)

\* A start() on an unlocked device has returned success.
C4_Witness ==
  /\ Returned("start") /\ status = "OK" /\ ~entry_locked
  /\ LastOp = <<LockOp, "OK">> /\ locked

\* C5: if a step of start() other than the lock call fails, the lock is not
\* issued in that invocation and the lock state is what it was on entry (an
\* unlocked partition is still unlocked when start() returns).
C5_NoLockAfterFailure ==
  (/\ fn = "start"
   /\ \E i \in 1..Len(ops) : Result(i) # "OK" /\ Callee(i) # LockOp)
  => /\ \A i \in 1..Len(ops) : Callee(i) # LockOp
     /\ locked = entry_locked

\* start() has returned an error after the write of share1 failed; the
\* partition is still unlocked.
C5_Witness ==
  /\ Returned("start") /\ status # "OK" /\ ~locked
  /\ LastOp[1] = OtpWriteOp /\ LastOp[2] # "OK"
  /\ Len(ops) > 1 /\ ops[Len(ops) - 1] = <<OtpWriteOp, "OK">>

\* C6: the share validator returns success if and only if every pair of
\* words differs and no word of share0 and no word of share1 is 0 or all ones.
C6_SharesCheckIffValid ==
  (pc \in {"c_uninst", "c_check1"} /\ SharesDrawn)
  => (shares_check(share0, share1, kRootKeyShareSizeIn64BitWords) = "OK"
        <=> SharesValid(share0, share1))

\* C7: when every driver call of flash_ctrl_secret_write returned OK, it
\* returns success if and only if every word read back equals the word drawn
\* and no drawn word is 0 or 0xFFFFFFFF.
C7_SecretWriteIffVerified ==
  (pc = "w_ret" /\ Len(ops) > 0 /\ LastOp[1] = "secret_verify")
  => /\ Len(seed) = len /\ Len(seed_result) = len
     /\ (status = "OK")
          <=> \A i \in 1..len : /\ seed_result[i] = seed[i]
                                /\ seed[i] # Zero32 /\ seed[i] # UINT32_MAX

\* flash_ctrl_secret_write has failed because of a single offending word
\* that is neither the first nor the last one: the word read back differs.
C7_Witness ==
  /\ pc = "w_ret" /\ LastOp = <<"secret_verify", "INTERNAL">> /\ status = "INTERNAL"
  /\ SeedValid(seed)
  /\ \E k \in 2..(len - 1) :
       /\ seed_result[k] # seed[k]
       /\ \A i \in (1..len) \ {k} : seed_result[i] = seed[i]

\* C8: whenever flash_ctrl_secret_write returns success the target page holds
\* exactly the words drawn in that call, none of them 0 or all ones; after a
\* successful start() that did not skip, both pages hold such a seed.
C8_SuccessMeansStored ==
  /\ (pc = "w_ret" /\ status = "OK")
       => /\ Len(seed) = len /\ len > 0
          /\ SubSeq(flash[page_id], 1, len) = seed
          /\ SeedValid(seed)
  /\ (Returned("start") /\ status = "OK" /\ ~entry_locked)
       => \A p \in FlashPages : flash[p] # ErasedPage /\ SeedValid(flash[p])

\* The owner secret has been written and verified on a retry.
C8_Witness ==
  /\ pc = "w_ret" /\ status = "OK" /\ calls = 2
  /\ page_id = kFlashInfoPageIdOwnerSecret
  /\ flash[kFlashInfoPageIdOwnerSecret] = seed
  /\ flash[kFlashInfoPageIdCreatorSecret] # seed

\* C9: if the two drawn shares fail the share validator, configure returns an
\* error, writes no share to the OTP store, issues no lock, and the partition
\* stays unlocked.
C9_InvalidSharesNotWritten ==
  (/\ pc = "c_ret" /\ SharesDrawn
   /\ shares_check(share0, share1, kRootKeyShareSizeIn64BitWords) # "OK")
  => /\ status # "OK"
     /\ \A i \in 1..Len(ops) : Callee(i) # OtpWriteOp /\ Callee(i) # LockOp
     /\ ~locked

\* configure has returned INTERNAL for two identical shares.
C9_Witness ==
  /\ pc = "c_ret" /\ SharesDrawn /\ share0 = share1
  /\ LastOp = <<"shares_check", "INTERNAL">> /\ status = "INTERNAL"
  /\ ~locked

\* C10: with the partition unlocked, every driver call succeeding and shares
\* that satisfy the data-model rule, configure returns success and the lock
\* query changes from false to true.
C10_ValidSharesLock ==
  (/\ pc = "c_ret" /\ SharesDrawn /\ SharesValid(share0, share1)
   /\ \A i \in 1..Len(ops) : Callee(i) \notin InternalChecks => Result(i) = "OK")
  => /\ status = "OK"
     /\ ~entry_locked /\ locked
     /\ LastOp = <<LockOp, "OK">>

\* configure has returned success and locked the partition.
C10_Witness ==
  /\ pc = "c_ret" /\ status = "OK" /\ SharesValid(share0, share1)
  /\ ~entry_locked /\ locked
  /\ otp = [share0 |-> share0, share1 |-> share1]

\* C11: whenever start() returns success the partition is locked; end()
\* returns success exactly when its lock query answers on a partition that
\* was locked when end() was called, so it succeeds right after a successful
\* start() and fails wherever the lock step has not been completed.
C11_SuccessMeansCommitted ==
  /\ (Returned("start") /\ status = "OK") => locked
  /\ Returned("end")
       => /\ (status = "OK") => (entry_locked /\ locked)
          /\ (entry_locked /\ ops = <<<<QueryOp, "OK">>>>) => status = "OK"
          /\ ~locked => status # "OK"

\* end() has failed on a device whose two shares are written but whose
\* partition was never locked.
C11_Witness ==
  /\ Returned("end") /\ ~locked /\ status = "INTERNAL"
  /\ otp.share0 # BlankShare /\ otp.share1 # BlankShare

\* C12: the lock state is monotone: over any sequence of start() and end()
\* invocations, failed, interrupted and repeated ones included, a locked
\* partition is never unlocked again.
C12_LockMonotone == [][locked => locked']_vars

\* A start() on a locked partition has failed (its lock query did); the
\* partition is still locked.
C12_Witness ==
  /\ Returned("start") /\ entry_locked /\ locked
  /\ Len(ops) = 2 /\ Callee(2) = QueryOp /\ Result(2) # "OK"
  /\ status # "OK"

\* A step that makes the call `callee`.
Issues(callee) ==
  /\ Len(ops') = Len(ops) + 1
  /\ ops'[Len(ops')][1] = callee

\* C13: the lock is issued successfully at most once: once the partition is
\* locked, no step of any later invocation issues the lock call.
C13_LockIssuedOnce == [][locked => ~Issues(LockOp)]_vars

\* A later start() on the locked partition has made its lock query, and no
\* lock call.
C13_Witness ==
  /\ fn = "start" /\ calls = 2 /\ entry_locked /\ locked
  /\ Len(ops) = 2 /\ LastOp = <<QueryOp, "OK">>
  /\ \A i \in 1..Len(ops) : Callee(i) # LockOp

\* A step of the flow: any step but those of flash_ctrl_owner_secret_write
\* invoked on its own, which is no part of a sequence of start() and end().
StepOfFlow == fn' # "owner_write"

\* C14: once the partition is locked the flow is write-inert: no step of
\* start() or end() changes the flash secret pages or the OTP shares, and
\* none issues a flash erase/program or an OTP write.
C14_LockedIsWriteInert ==
  [][(locked /\ StepOfFlow)
       => /\ flash' = flash /\ otp' = otp
          /\ ~Issues("flash_ctrl_testutils_erase_and_write_page")
          /\ ~Issues(OtpWriteOp)]_vars

\* After the partition was locked, start() and then end() have run on it.
C14_Witness ==
  /\ Returned("end") /\ calls = 2 /\ entry_locked /\ locked /\ status = "OK"
  /\ \A p \in FlashPages : SeedValid(flash[p])

\* C15: in start() the first call or check that fails ends the invocation:
\* a failed step is the last step made, its status is the status returned,
\* and start() never returns success after a failed step.
C15_FirstErrorWins ==
  fn = "start"
  => /\ \A i \in 1..Len(ops) :
          Result(i) # "OK" => /\ i = Len(ops)
                              /\ pc \in {"w_ret", "c_ret", "done"}
                              /\ status = Result(i)
     /\ (pc = "done" /\ status = "OK") => \A i \in 1..Len(ops) : Result(i) = "OK"

\* start() has returned the error of a failed reseed, the last call it made.
C15_Witness ==
  /\ Returned("start") /\ status = "ABORTED"
  /\ LastOp = <<"entropy_csrng_reseed", "ABORTED">>
  /\ \A i \in 1..(Len(ops) - 1) : Result(i) = "OK"

\* Positions of flash_ctrl_secret_write before it returns.
SecretWriteBody == {"w_inst", "w_gen", "w_uninst", "w_setup", "w_program",
                    "w_read", "w_verify"}

\* Positions of otp_partition_secret2_configure.
ConfigurePcs == {"c_inst", "c_gen0", "c_reseed", "c_gen1", "c_uninst", "c_check1",
                 "c_write0", "c_write1", "c_check2", "c_lock", "c_ret"}

\* Steps of the call log at which a secret write was verified.
Verified == {i \in 1..Len(ops) : ops[i] = <<"secret_verify", "OK">>}

\* Steps of the call log at which a flash page was erased and programmed.
Programs == {i \in 1..Len(ops) : Callee(i) = "flash_ctrl_testutils_erase_and_write_page"}

\* C16: in start() the creator secret is written and verified before the
\* owner secret write begins, the owner secret is written and verified before
\* the Root-Key Configurator begins, and the Configurator runs only after
\* both secret writes succeeded.
C16_FixedOrder ==
  fn = "start"
  => /\ (pc \in SecretWriteBody /\ page_id = kFlashInfoPageIdCreatorSecret)
          => (Verified = {} /\ Cardinality(Programs) <= 1)
     /\ (pc \in SecretWriteBody /\ page_id = kFlashInfoPageIdOwnerSecret)
          => /\ Cardinality(Verified) = 1
             /\ Cardinality({p \in Programs : \A v \in Verified : p < v}) = 1
             /\ Cardinality({p \in Programs : \A v \in Verified : p > v}) <= 1
             /\ SeedValid(flash[kFlashInfoPageIdCreatorSecret])
     /\ pc \in ConfigurePcs
          => /\ Cardinality(Verified) = 2 /\ Cardinality(Programs) = 2
             /\ \A i \in 1..Len(ops) :
                  Callee(i) \in {"entropy_csrng_reseed", "shares_check", OtpWriteOp, LockOp}
                    => \A v \in Verified : v < i
             /\ \A p \in FlashPages : SeedValid(flash[p])

\* The Configurator begins: both secrets are written and verified.
C16_Witness ==
  /\ fn = "start" /\ pc = "c_inst"
  /\ Cardinality(Verified) = 2
  /\ LastOp = <<"secret_verify", "OK">>

\* C17: every pair of root-key shares that the flow writes to the OTP store
\* satisfies the data-model rule: no 64-bit word of share0 or share1 is all
\* zeros or all ones, and share0[i] differs from share1[i] for every i.
C17_WrittenSharesValid ==
  (fn = "start" /\ pc = "c_check2")
  => /\ otp = [share0 |-> share0, share1 |-> share1]
     /\ SharesValid(otp.share0, otp.share1)

\* Position of a statement in the text of start(), the two calls of
\* flash_ctrl_secret_write told apart by the page they write.
PcRank(p, page) ==
  CASE p = "s_lc"           -> 1
    [] p = "s_is_locked"    -> 2
    [] p = "s_entropy_init" -> 3
    [] p = "s_creator"      -> 4
    [] p = "s_owner"        -> 13
    [] p = "s_configure"    -> 22
    [] p = "w_inst"    -> IF page = kFlashInfoPageIdCreatorSecret THEN 5 ELSE 14
    [] p = "w_gen"     -> IF page = kFlashInfoPageIdCreatorSecret THEN 6 ELSE 15
    [] p = "w_uninst"  -> IF page = kFlashInfoPageIdCreatorSecret THEN 7 ELSE 16
    [] p = "w_setup"   -> IF page = kFlashInfoPageIdCreatorSecret THEN 8 ELSE 17
    [] p = "w_program" -> IF page = kFlashInfoPageIdCreatorSecret THEN 9 ELSE 18
    [] p = "w_read"    -> IF page = kFlashInfoPageIdCreatorSecret THEN 10 ELSE 19
    [] p = "w_verify"  -> IF page = kFlashInfoPageIdCreatorSecret THEN 11 ELSE 20
    [] p = "w_ret"     -> IF page = kFlashInfoPageIdCreatorSecret THEN 12 ELSE 21
    [] p = "c_inst"   -> 23
    [] p = "c_gen0"   -> 24
    [] p = "c_reseed" -> 25
    [] p = "c_gen1"   -> 26
    [] p = "c_uninst" -> 27
    [] p = "c_check1" -> 28
    [] p = "c_write0" -> 29
    [] p = "c_write1" -> 30
    [] p = "c_check2" -> 31
    [] p = "c_lock"   -> 32
    [] p = "c_ret"    -> 33
    [] p = "done"     -> 34
    [] OTHER          -> 0

\* The three terminal outcomes of start().
Skipped == status = "OK" /\ \A i \in 1..Len(ops) : Callee(i) \in {LcOp, QueryOp}

Done == status = "OK" /\ Len(ops) > 0 /\ LastOp = <<LockOp, "OK">>

Failed == status # "OK"

\* C18: when every peripheral call returns, start() is never in progress for
\* ever: an invocation always ends (it returns, or the device loses power), every
\* statement it executes lies later in the program text than the one before
\* (no loop, no retry), and a returned invocation has exactly one of the
\* outcomes SKIPPED, DONE and FAILED.
C18_TerminatesOnce ==
  /\ []<>(fn # "start" \/ pc = "done")
  /\ [][(fn = "start" /\ fn' = "start" /\ pc # "done")
        => PcRank(pc', page_id') > PcRank(pc, page_id)]_vars
  /\ [](Returned("start")
        => /\ status \in {"OK", "FAILED_PRECONDITION"} \cup DriverErrors
           /\ Skipped \/ Done \/ Failed
           /\ ~(Skipped /\ Done) /\ ~(Skipped /\ Failed) /\ ~(Done /\ Failed))

\* The second invocation of start() has run to the lock, whose failure ended
\* it with the outcome FAILED.
C18_Witness ==
  /\ Returned("start") /\ calls = 2 /\ Failed /\ ~Skipped /\ ~Done
  /\ LastOp = <<LockOp, "INTERNAL">>

\* shares_check was the last call made and its arguments are still in scope.
SharesChecked ==
  /\ fn = "start" /\ SharesDrawn
  /\ Len(ops) > 0 /\ LastOp[1] = "shares_check"

\* C19 as stated: shares_check flags an error exactly when, for some index i,
\* share0[i] = share1[i] or share0[i] is 0 or all ones, or when share1[0] is 0
\* or all ones (both tests of share1 fixed on index 0).
C19_Share1TestsOnIndex0 ==
  SharesChecked
  => (LastOp[2] = "INTERNAL"
        <=> \/ \E i \in 1..Len(share0) :
                 \/ share0[i] = share1[i]
                 \/ share0[i] \in {Zero64, UINT64_MAX}
            \/ share1[1] \in {Zero64, UINT64_MAX})

\* C19 amended: shares_check flags an error exactly when, for some index i,
\* share0[i] = share1[i] or share0[i] is 0 or all ones or share1[i] is all
\* ones, or when share1[0] is 0 (only the zero test of share1 is fixed on
\* index 0); otherwise it returns success.
C19_OnlyZeroTestOnIndex0 ==
  SharesChecked
  => /\ LastOp[2] \in {"OK", "INTERNAL"}
     /\ LastOp[2] = "INTERNAL"
          <=> \/ \E i \in 1..Len(share0) :
                   \/ share0[i] = share1[i]
                   \/ share0[i] \in {Zero64, UINT64_MAX}
                   \/ share1[i] = UINT64_MAX
              \/ share1[1] = Zero64

\* shares_check has flagged a pair whose only offending word is an all-ones
\* word of share1 at an index other than 0.
C19_Witness ==
  /\ SharesChecked /\ LastOp[2] = "INTERNAL"
  /\ share1[1] \notin {Zero64, UINT64_MAX}
  /\ \E k \in 2..Len(share1) :
       /\ share1[k] = UINT64_MAX
       /\ \A i \in 1..Len(share1) : i # k => share1[i] \notin {Zero64, UINT64_MAX}
  /\ \A i \in 1..Len(share0) :
       share0[i] # share1[i] /\ share0[i] \notin {Zero64, UINT64_MAX}

\* C20: the lifecycle check precedes the lock query: the first call start()
\* makes is the lifecycle check, the lock query is issued only as the second
\* call and only after the lifecycle check returned OK; so when the partition
\* is locked on entry and the lifecycle check reports an error, start()
\* returns that error, not success, and no lock query was issued.
C20_GateBeforeQuery ==
  fn = "start"
  => /\ Len(ops) >= 1 => Callee(1) = LcOp
     /\ \A i \in 1..Len(ops) :
          Callee(i) = QueryOp => (i = 2 /\ ops[1] = <<LcOp, "OK">>)
     /\ (pc = "done" /\ entry_locked /\ Len(ops) >= 1 /\ Result(1) # "OK")
        => /\ status = Result(1) /\ status # "OK"
           /\ \A i \in 1..Len(ops) : Callee(i) # QueryOp

\* The second invocation of start() finds the partition locked by the first
\* and the device no longer eligible: it has returned the gate's error without
\* querying the lock.
C20_Witness ==
  /\ Returned("start") /\ calls = 2 /\ entry_locked /\ locked
  /\ Len(ops) = 1 /\ Callee(1) = LcOp /\ Result(1) = "FAILED_PRECONDITION"
  /\ status = "FAILED_PRECONDITION"
  /\ \A i \in 1..Len(ops) : Callee(i) # QueryOp

\* The calls made so far by otp_partition_secret2_configure: the part of the
\* call log that follows the second verified secret write.
ConfigureLog ==
  IF fn = "start" /\ Cardinality(Verified) = 2
    THEN LET last == CHOOSE v \in Verified : \A w \in Verified : w <= v
         IN  SubSeq(ops, last + 1, Len(ops))
    ELSE <<>>

\* The entropy operations of otp_partition_secret2_configure, in order.
ConfigureEntropySeq ==
  <<"entropy_csrng_instantiate", "entropy_csrng_generate", "entropy_csrng_reseed",
    "entropy_csrng_generate", "entropy_csrng_uninstantiate">>

\* C21: the calls of otp_partition_secret2_configure begin with instantiate,
\* generate (share0), reseed, generate (share1), uninstantiate, in this order
\* and each once; no entropy operation follows them, so the one teardown comes
\* after both draws and before the first shares check and any OTP write.
C21_ConfigureEntropyOrder ==
  /\ \A i \in 1..Len(ConfigureLog) :
       IF i <= Len(ConfigureEntropySeq)
         THEN ConfigureLog[i][1] = ConfigureEntropySeq[i]
         ELSE ConfigureLog[i][1] \notin EntropyOps
  /\ (fn = "start" /\ pc \in {"c_check1", "c_write0", "c_write1", "c_check2", "c_lock"})
       => /\ Len(ConfigureLog) >= Len(ConfigureEntropySeq)
          /\ SharesDrawn

\* Both shares are drawn and the instance is torn down; the first shares check
\* is about to run.
C21_Witness ==
  /\ fn = "start" /\ pc = "c_check1" /\ SharesDrawn
  /\ Len(ConfigureLog) = 5
  /\ \A i \in 1..5 : ConfigureLog[i] = <<ConfigureEntropySeq[i], "OK">>

\* Position of flash_ctrl_secret_write after k of its steps.
secret_write_next_pc(k) ==
  <<"w_inst", "w_gen", "w_uninst", "w_setup", "w_program", "w_read",
    "w_verify", "w_ret">>[k + 1]

\* The steps of flash_ctrl_secret_write, in order.
SecretWriteSeq ==
  <<"entropy_csrng_instantiate", "entropy_csrng_generate",
    "entropy_csrng_uninstantiate",
    "flash_ctrl_testutils_info_region_scrambled_setup",
    "flash_ctrl_testutils_erase_and_write_page", "flash_ctrl_testutils_read",
    "secret_verify">>

\* The calls made by the flash_ctrl_secret_write that started after entry
\* `from` of the call log.
SecretWriteLog(from) ==
  SubSeq(ops, from + 1, IF Len(ops) < from + Len(SecretWriteSeq)
                          THEN Len(ops) ELSE from + Len(SecretWriteSeq))

\* The call log of the creator secret write: it follows entropy_complex_init.
CreatorLog ==
  IF fn = "start" /\ Len(ops) >= 3 /\ ops[3] = <<"entropy_complex_init", "OK">>
    THEN SecretWriteLog(3) ELSE <<>>

\* The call log of the owner secret write: it follows the verified creator
\* secret write.
OwnerLog ==
  IF CreatorLog # <<>> /\ Len(CreatorLog) = Len(SecretWriteSeq)
     /\ CreatorLog[Len(SecretWriteSeq)] = <<"secret_verify", "OK">>
    THEN SecretWriteLog(3 + Len(SecretWriteSeq)) ELSE <<>>

\* The call log of flash_ctrl_owner_secret_write invoked on its own: the
\* secret write is all it does.
DirectLog == IF fn = "owner_write" THEN SecretWriteLog(0) ELSE <<>>

\* C22: each flash_ctrl_secret_write makes its calls in the order instantiate,
\* generate, uninstantiate, region setup, erase-and-program, read, compare;
\* while it sets up, programs, reads or compares, the entropy instance is torn
\* down; and it programs the page once, by the one call that erases the page
\* and then programs it.
C22_SecretWriteOrder ==
  /\ \A i \in 1..Len(CreatorLog) : CreatorLog[i][1] = SecretWriteSeq[i]
  /\ \A i \in 1..Len(OwnerLog) : OwnerLog[i][1] = SecretWriteSeq[i]
  /\ \A i \in 1..Len(DirectLog) : DirectLog[i][1] = SecretWriteSeq[i]
  /\ (fn \in {"start", "owner_write"} /\ pc \in SecretWriteBody)
       => LET log == IF fn = "owner_write" THEN DirectLog
                     ELSE IF page_id = kFlashInfoPageIdCreatorSecret
                       THEN CreatorLog ELSE OwnerLog
          IN  /\ pc = secret_write_next_pc(Len(log))
              /\ \A i \in 1..Len(log) : log[i][2] = "OK"
  /\ (fn \in {"start", "owner_write"}
        /\ pc \in {"w_setup", "w_program", "w_read", "w_verify"})
       => ~csrng_inst

\* The owner secret write has made its seven steps, all successful.
C22_Witness ==
  /\ fn = "start" /\ pc = "w_ret" /\ status = "OK"
  /\ page_id = kFlashInfoPageIdOwnerSecret
  /\ Len(OwnerLog) = Len(SecretWriteSeq)
  /\ \A i \in 1..Len(OwnerLog) : OwnerLog[i] = <<SecretWriteSeq[i], "OK">>

\* C23: start() calls entropy_complex_init at most once, as its third call,
\* after the lifecycle check succeeded and the lock query reported the
\* partition unlocked; every other entropy operation comes after its success;
\* every invocation that goes past the lock query has called it; and it is not
\* called when the lifecycle check fails or the partition is locked.
C23_EntropyInitOnceFirst ==
  fn = "start"
  => /\ \A i \in 1..Len(ops) :
          Callee(i) = "entropy_complex_init"
            => /\ i = 3 /\ ~entry_locked
               /\ ops[1] = <<LcOp, "OK">> /\ ops[2] = <<QueryOp, "OK">>
     /\ \A i \in 1..Len(ops) :
          Callee(i) \in EntropyOps \ {"entropy_complex_init"}
            => (i > 3 /\ ops[3] = <<"entropy_complex_init", "OK">>)
     /\ pc \in SecretWriteBody \cup ConfigurePcs \cup {"w_ret", "s_creator", "s_owner", "s_configure"}
          => (Len(ops) >= 3 /\ ops[3] = <<"entropy_complex_init", "OK">>)
     /\ (pc = "done" /\ Len(ops) >= 3) => Callee(3) = "entropy_complex_init"
     /\ (pc = "done" /\ Len(ops) >= 1 /\ (Result(1) # "OK" \/ entry_locked))
          => \A i \in 1..Len(ops) : Callee(i) # "entropy_complex_init"

\* The second invocation of start(), on a partition still unlocked, has
\* initialised the entropy complex and is about to draw the creator seed.
C23_Witness ==
  /\ fn = "start" /\ calls = 2 /\ pc = "w_inst"
  /\ page_id = kFlashInfoPageIdCreatorSecret
  /\ ops = <<<<LcOp, "OK">>, <<QueryOp, "OK">>, <<"entropy_complex_init", "OK">>>>

\* What otp_partition_secret2_configure does once the shares are drawn.
ConfigureCommitSeq ==
  <<"shares_check", OtpWriteOp, OtpWriteOp, "shares_check", LockOp>>

\* C24: after its five entropy operations otp_partition_secret2_configure
\* validates the shares, writes share0, writes share1 (to its own offset:
\* share0 stays as written), validates the shares again and only then issues
\* the lock; when the lock is issued both writes and the second validation
\* have succeeded and the partition holds both shares.
C24_WriteWriteCheckLock ==
  /\ \A i \in (Len(ConfigureEntropySeq) + 1)..Len(ConfigureLog) :
       /\ i <= Len(ConfigureEntropySeq) + Len(ConfigureCommitSeq)
       /\ ConfigureLog[i][1] = ConfigureCommitSeq[i - Len(ConfigureEntropySeq)]
       /\ ConfigureLog[i][1] = LockOp
            => \A j \in 1..(i - 1) : ConfigureLog[j][2] = "OK"
  /\ (fn = "start" /\ pc = "c_write1")
       => (otp.share0 = share0 /\ ConfigureLog[Len(ConfigureLog)] = <<OtpWriteOp, "OK">>)
  /\ (fn = "start" /\ pc \in {"c_check2", "c_lock"})
       => otp = [share0 |-> share0, share1 |-> share1]
  /\ (fn = "start" /\ pc = "c_ret" /\ Len(ConfigureLog) > 0
      /\ ConfigureLog[Len(ConfigureLog)][1] = LockOp)
       => otp = [share0 |-> share0, share1 |-> share1]

\* The lock has been issued and has succeeded, after two writes and the second
\* validation.
C24_Witness ==
  /\ fn = "start" /\ pc = "c_ret" /\ locked
  /\ Len(ConfigureLog) = 10
  /\ \A i \in 6..10 : ConfigureLog[i] = <<ConfigureCommitSeq[i - 5], "OK">>
  /\ otp = [share0 |-> share0, share1 |-> share1] /\ share0 # share1

\* The healthy output of draw k (0: creator seed, 1: owner seed, 2: share0,
\* 3: share1) of the c-th invocation of start().
CallSeed(c, k) == StreamBase(4 * (c - 1) + k, kCreatorSeedSizeInWords)

CallShare(c, k) == Words64Of(StreamBase(4 * (c - 1) + k, kRootKeyShareSizeIn32BitWords))

\* The share s was drawn as draw k of the c-th invocation: all its words but
\* the faulty ones are words of that draw.
FromCall(s, c, k) ==
  /\ Len(s) = kRootKeyShareSizeIn64BitWords
  /\ Cardinality({i \in 1..Len(s) : s[i] = CallShare(c, k)[i]})
       >= kRootKeyShareSizeIn64BitWords - MaxOffending

\* The partition holds the two shares drawn in the c-th invocation.
PopulatedBy(c) == FromCall(otp.share0, c, 2) /\ FromCall(otp.share1, c, 3)

\* C25: a start() that wrote both shares and whose lock call failed leaves
\* the partition populated and unlocked.  A start() on an unlocked partition,
\* populated or not, does not skip: it returns success only after the whole
\* sequence; the shares it validates and writes are the ones it has drawn
\* itself, its OTP writes replace what the partition held, and when it reaches
\* the configure step both flash pages hold the seeds it has drawn itself.
C25_RetryRedrawsAndRewrites ==
  fn = "start"
  => /\ (pc = "done" /\ Len(ops) > 0 /\ LastOp[1] = LockOp /\ LastOp[2] # "OK")
          => (~locked /\ status # "OK" /\ PopulatedBy(calls))
     /\ (~entry_locked /\ pc = "done" /\ status = "OK")
          => (/\ Len(ops) = 3 + 2 * Len(SecretWriteSeq) + Len(ConfigureEntropySeq)
                              + Len(ConfigureCommitSeq)
              /\ LastOp = <<LockOp, "OK">> /\ PopulatedBy(calls))
     /\ (~entry_locked /\ Len(ops) >= 2 /\ ops[2] = <<QueryOp, "OK">>)
          => (pc # "done" \/ Len(ops) > 2)
     /\ (pc \in {"c_write0", "c_write1", "c_check2", "c_lock"})
          => (FromCall(share0, calls, 2) /\ FromCall(share1, calls, 3))
     /\ (pc = "c_write1") => otp.share0 = share0
     /\ (pc \in {"c_check2", "c_lock"})
          => (PopulatedBy(calls) /\ \A c \in 1..(calls - 1) : ~PopulatedBy(c))
     /\ (pc \in ConfigurePcs \cup {"s_configure"})
          => /\ flash[kFlashInfoPageIdCreatorSecret] = CallSeed(calls, 0)
             /\ flash[kFlashInfoPageIdOwnerSecret] = CallSeed(calls, 1)

\* The second start() runs on a partition that the first one populated and
\* left unlocked: it has reprogrammed both flash pages with new seeds, drawn
\* new shares and written the new share0 over the old one; the partition still
\* holds the old share1, which the next write replaces.
C25_Witness ==
  /\ fn = "start" /\ calls = 2 /\ pc = "c_write1" /\ ~locked
  /\ FromCall(otp.share1, 1, 3) /\ FromCall(otp.share0, 2, 2)
  /\ otp.share0 = share0 /\ FromCall(share1, 2, 3)
  /\ flash[kFlashInfoPageIdCreatorSecret] = CallSeed(2, 0)
  /\ flash[kFlashInfoPageIdOwnerSecret] = CallSeed(2, 1)

\* A step that interrupts the invocation in progress.
Interrupts ==
  fn \in {"start", "end", "owner_write"} /\ pc # "done" /\ fn' = "none"

\* A step in which the lock query of the entry point f is made and answers.
QueryAnswers(f) ==
  /\ fn = f /\ fn' = f /\ pc \in {"s_is_locked", "e_is_locked"}
  /\ ops' = Append(ops, <<QueryOp, "OK">>)

\* C26: an interruption at any step changes nothing that is stored, so the
\* lock is committed after it exactly if the lock step had completed before
\* it; and in whatever state the flow is entered again, end() whose lock query
\* answers returns success iff the partition is locked, and start() whose
\* lock query answers skips (returns success, nothing changed) iff the
\* partition is locked and otherwise goes on to the entropy init, the first
\* step of the whole sequence.  So start() never skips on a partition whose
\* lock was not committed.
C26_InterruptionIsRecoverable ==
  /\ [][/\ Interrupts => (storage' = storage /\ lc_eligible' = lc_eligible)
        /\ QueryAnswers("end")
             => (pc' = "done" /\ (status' = "OK" <=> locked) /\ storage' = storage)
        /\ QueryAnswers("start")
             => /\ storage' = storage
                /\ locked => (pc' = "done" /\ status' = "OK")
                /\ ~locked => (pc' = "s_entropy_init" /\ status' # "OK")]_vars
  /\ []((Returned("start") /\ status = "OK" /\ Len(ops) <= 2) => locked)
  /\ []((Returned("end") /\ status = "OK") => locked)

\* start() has been interrupted between the write of share1 and the
\* completion of the lock step: both shares are stored, the lock is not
\* committed.
C26_Witness ==
  /\ fn = "none" /\ calls >= 1 /\ ~locked
  /\ PopulatedBy(calls)
  /\ \A p \in FlashPages : SeedValid(flash[p])

\* start() is returning an error: a step has failed and start() has not yet
\* returned.
Failing == fn = "start" /\ pc # "done" /\ status \notin {"PENDING", "OK"}

\* C27: once a step of start() has failed, start() makes no further call and
\* changes nothing in storage on its way out; so when it returns the error,
\* what the steps before the failing one had written is still there: the
\* verified creator seed when a later step failed, both verified seeds when
\* the configure step failed, share0 when the write of share1 failed, both
\* shares when the lock failed.
C27_NoRollback ==
  /\ [][(Failing /\ fn' = "start") => (storage' = storage /\ ops' = ops)]_vars
  /\ []((Returned("start") /\ status # "OK")
        => /\ Cardinality(Verified) >= 1
                => flash[kFlashInfoPageIdCreatorSecret] = CallSeed(calls, 0)
           /\ Cardinality(Verified) = 2
                => flash[kFlashInfoPageIdOwnerSecret] = CallSeed(calls, 1)
           /\ (Len(ConfigureLog) = 8 /\ LastOp[1] = OtpWriteOp)
                => FromCall(otp.share0, calls, 2)
           /\ (Len(ConfigureLog) = 10 /\ LastOp[1] = LockOp)
                => PopulatedBy(calls))

\* The creator secret was programmed and verified, then the programming of
\* the owner page failed: start() has returned the error and the creator
\* page still holds the creator seed.
C27_Witness ==
  /\ Returned("start") /\ status = "ABORTED"
  /\ LastOp = <<"flash_ctrl_testutils_erase_and_write_page", "ABORTED">>
  /\ Cardinality(Verified) = 1 /\ Len(OwnerLog) = 5
  /\ flash[kFlashInfoPageIdCreatorSecret] = CallSeed(calls, 0)

\* C28: whenever flash_ctrl_secret_write or otp_partition_secret2_configure
\* returns, with success or with an error, no CSRNG instance is instantiated.
C28_ReturnsTornDown ==
  (fn \in {"start", "owner_write"} /\ pc \in {"w_ret", "c_ret"}) => ~csrng_inst

\* C29: end() makes one call, the lock query, and no entropy, flash, OTP
\* write or lock operation; entering end() and executing it leave the flash
\* pages, the OTP shares, the lock state, the lifecycle state and the CSRNG
\* as they are.
C29_EndOnlyQueries ==
  /\ []((fn = "end")
        => /\ Len(ops) <= 1
           /\ \A i \in 1..Len(ops) : Callee(i) = QueryOp
           /\ NoEffectOps
           /\ locked = entry_locked)
  /\ [][(pc' = "e_is_locked" \/ (pc = "e_is_locked" /\ fn' = "end"))
        => (storage' = storage /\ lc_eligible' = lc_eligible
            /\ csrng_inst' = csrng_inst)]_vars

\* end() has run on a device that was never provisioned: it has queried the
\* lock and failed, and the device is as blank as before.
C29_Witness ==
  /\ Returned("end") /\ calls = 0
  /\ ops = <<<<QueryOp, "OK">>>> /\ status = "INTERNAL"
  /\ ~locked /\ otp = [share0 |-> BlankShare, share1 |-> BlankShare]
  /\ flash = [p \in FlashPages |-> ErasedPage]

\* The flash region a secret write is directed to: bank, info partition, page.
FlashRegion(page) == <<kFlashInfoBankId, kFlashInfoPartitionId, page>>

\* C30: the creator secret goes to page 1 and the owner secret to page 2 of
\* bank 0, info partition 0; no step of the owner secret write changes the
\* creator page (it addresses the owner page only); and when start() has run
\* the whole sequence successfully the creator page holds the creator seed
\* verified earlier and the owner page the owner seed, a different one.
C30_DistinctPages ==
  /\ [](/\ FlashRegion(kFlashInfoPageIdCreatorSecret) = <<0, 0, 1>>
        /\ FlashRegion(kFlashInfoPageIdOwnerSecret) = <<0, 0, 2>>
        /\ (fn \in {"start", "owner_write"}
              /\ pc \in {"w_program", "w_read", "w_verify"})
             => address = page_id
        /\ fn = "owner_write" => page_id \in {0, kFlashInfoPageIdOwnerSecret}
        /\ (fn = "start" /\ page_id = kFlashInfoPageIdOwnerSecret)
             => flash[kFlashInfoPageIdCreatorSecret] = CallSeed(calls, 0)
        /\ (Returned("start") /\ status = "OK" /\ ~entry_locked)
             => /\ flash[kFlashInfoPageIdCreatorSecret] = CallSeed(calls, 0)
                /\ flash[kFlashInfoPageIdOwnerSecret] = CallSeed(calls, 1)
                /\ SeedValid(flash[kFlashInfoPageIdCreatorSecret])
                /\ flash[kFlashInfoPageIdCreatorSecret]
                     # flash[kFlashInfoPageIdOwnerSecret])
  /\ [][(fn \in {"start", "owner_write"}
          /\ page_id = kFlashInfoPageIdOwnerSecret)
        => flash'[kFlashInfoPageIdCreatorSecret]
             = flash[kFlashInfoPageIdCreatorSecret]]_vars

\* The owner secret write has programmed and verified the owner page; the
\* creator page still holds the creator seed.
C30_Witness ==
  /\ fn = "start" /\ pc = "w_ret" /\ status = "OK"
  /\ page_id = kFlashInfoPageIdOwnerSecret /\ address = kFlashInfoPageIdOwnerSecret
  /\ flash[kFlashInfoPageIdCreatorSecret] = CallSeed(calls, 0)
  /\ flash[kFlashInfoPageIdOwnerSecret] = CallSeed(calls, 1)

\* C31: any two pairs of shares that each break the data-model rule get the
\* same result from shares_check, an error, whatever the index and the kind
\* of the violation.  Stated for any two draws of share1 that may follow the
\* share0 just drawn.
C31_InvalidPairsAlike ==
  (fn = "start" /\ pc = "c_reseed"
   /\ Len(share0) = kRootKeyShareSizeIn64BitWords)
  => \A b1, b2 \in Share1Draws(share0) :
       (/\ ~SharesValid(share0, Words64Of(b1))
        /\ ~SharesValid(share0, Words64Of(b2)))
       => /\ shares_check(share0, Words64Of(b1), kRootKeyShareSizeIn64BitWords)
               = shares_check(share0, Words64Of(b2), kRootKeyShareSizeIn64BitWords)
          /\ shares_check(share0, Words64Of(b1), kRootKeyShareSizeIn64BitWords)
               # "OK"

\* C32: in every reachable state, from a blank unlocked device and through
\* failed, interrupted and repeated invocations, a locked partition implies
\* that one invocation c of start() did it all: the creator page and the
\* owner page hold the seeds drawn and verified in c, none of their words
\* being 0 or all ones, and the partition holds the share0 and the share1
\* drawn in c.
C32_LockedMeansProvisioned ==
  locked
  => \E c \in 1..calls :
       /\ flash[kFlashInfoPageIdCreatorSecret] = CallSeed(c, 0)
       /\ flash[kFlashInfoPageIdOwnerSecret] = CallSeed(c, 1)
       /\ \A p \in FlashPages : SeedValid(flash[p])
       /\ PopulatedBy(c)
       /\ otp.share0 # BlankShare /\ otp.share1 # BlankShare

\* The second invocation of start() has locked the partition, which the
\* first one had left unlocked; pages and shares are those of the second.
C32_Witness ==
  /\ Returned("start") /\ calls = 2 /\ locked /\ ~entry_locked /\ status = "OK"
  /\ PopulatedBy(2) /\ ~PopulatedBy(1)
  /\ flash[kFlashInfoPageIdCreatorSecret] = CallSeed(2, 0)
  /\ flash[kFlashInfoPageIdOwnerSecret] = CallSeed(2, 1)

\* C33: when the lock query fails inside start(), start() returns the
\* query's error at once: the query is the last call made, so there is no
\* entropy init, no draw, no flash operation, no OTP write and no lock, and
\* the lock state is as on entry, whatever the uninitialised is_locked holds.
C33_QueryFailureIsFatal ==
  (/\ fn = "start"
   /\ \E i \in 1..Len(ops) : Callee(i) = QueryOp /\ Result(i) # "OK")
  => /\ pc = "done"
     /\ Len(ops) = 2 /\ Callee(1) = LcOp /\ Callee(2) = QueryOp
     /\ status = Result(2) /\ status # "OK"
     /\ NoEffectOps
     /\ locked = entry_locked

\* The lock query has failed on an unlocked partition while is_locked, never
\* assigned, happened to hold false: start() has returned the error and has
\* not gone on to provision.
C33_Witness ==
  /\ Returned("start") /\ ~entry_locked /\ ~locked /\ ~is_locked
  /\ ops = <<<<LcOp, "OK">>, <<QueryOp, "ABORTED">>>>
  /\ status = "ABORTED"

\* C34: the OTP writes leaving share0 and share1 as they are, the second
\* shares check of otp_partition_secret2_configure gives the result of the
\* first, which passed; so once the first check has passed, configure (and
\* with it start()) fails only on an OTP write or on the lock.
C34_SecondCheckAgrees ==
  /\ [][Issues(OtpWriteOp) => (share0' = share0 /\ share1' = share1)]_vars
  /\ [](Len(ConfigureLog) >= 9
        => /\ ConfigureLog[6] = <<"shares_check", "OK">>
           /\ ConfigureLog[9] = ConfigureLog[6])
  /\ []((/\ fn = "start" /\ pc \in {"c_ret", "done"} /\ status # "OK"
         /\ Len(ConfigureLog) >= 6 /\ ConfigureLog[6] = <<"shares_check", "OK">>)
        => (LastOp[1] \in {OtpWriteOp, LockOp} /\ LastOp[2] = status))

\* Both shares are written and the second check has passed like the first;
\* the lock is about to be issued.
C34_Witness ==
  /\ fn = "start" /\ pc = "c_lock" /\ Len(ConfigureLog) = 9
  /\ ConfigureLog[6] = <<"shares_check", "OK">>
  /\ ConfigureLog[9] = <<"shares_check", "OK">>
  /\ shares_check(share0, share1, kRootKeyShareSizeIn64BitWords) = "OK"

====
